---- MODULE Spec2Model ----
(***************************************************************************)
(* A model of channel_merge.py: the filename normaliser, the acquisition   *)
(* grouper, the channel classifier / combination enumerator with its       *)
(* two-channel placeholder, the compositor's naming, and the run that      *)
(* strings them together (main).                                           *)
(*                                                                         *)
(* A Python str is a sequence of one-character strings; comparison of two  *)
(* strs is the lexicographic comparison of their code points.              *)
(***************************************************************************)
EXTENDS Integers, Sequences, FiniteSets, TLC

VARIABLES
    disk,       \* the directory: file name -> image, for the names that exist
    pc,         \* where the run is
    names,      \* glob('*.tif'): the raw names handed to cleanup_filenames
    fmt,        \* raw name -> formatted name (format_filenames)
    todo,       \* raw names the rename loop has not visited yet
    filenames,  \* cleanup_filenames' result: filtered, sorted
    channels,   \* group_images' result: [nums, files], the dict's keys and values
    acq,        \* index of the next acquisition tiffs_iterate_combos visits
    classified, \* per visited acquisition: the colors dict after the classification loop
    lists,      \* per visited acquisition: the colors dict after allow_two_channels
    imgs,       \* per visited acquisition: its combinations
    bad_files,  \* the batched unclassifiable names
    uids,       \* get_uids' result: sequence of <<uid, combination>>
    nuid,       \* index of the next uid preproc_imgs visits
    rgb,        \* composited uids, in order
    written,    \* names of the output files written
    io,         \* log of image codec calls: <<"read", name>> or <<"write", name>>
    nraw,       \* normaliser study: the raw name
    nonce,      \* normaliser study: the name formatted once, or IndexError
    ntwice,     \* normaliser study: the name formatted twice
    npc         \* normaliser study: how many times it was formatted

vars == <<disk, pc, names, fmt, todo, filenames, channels, acq, classified, lists,
          imgs,
          bad_files, uids, nuid, rgb, written, io, nraw, nonce, ntwice, npc>>

runvars == <<disk, pc, names, fmt, todo, filenames, channels, acq, classified, lists,
          imgs,
             bad_files, uids, nuid, rgb, written, io>>

normvars == <<nraw, nonce, ntwice, npc>>

-----------------------------------------------------------------------------
(* Strings *)

\* The characters of the model, in code point order.
Ascii == << " ", "(", ")", "-", ".",
            "0", "1", "2", "3", "4", "5", "6", "7", "8", "9",
            "B", "F", "G", "R",
            "a", "b", "c", "d", "e", "f", "g", "h", "i", "j", "k", "l", "m",
            "n", "o", "p", "q", "r", "s", "t", "u", "v", "w", "x", "y", "z" >>

Chars == { Ascii[i] : i \in 1..Len(Ascii) }

Ord == [ c \in Chars |-> CHOOSE i \in 1..Len(Ascii) : Ascii[i] = c ]

Digits == { "0", "1", "2", "3", "4", "5", "6", "7", "8", "9" }

Whitespace == { " " }

LowerChar == [ c \in Chars |->
                 CASE c = "B" -> "b" [] c = "F" -> "f" [] c = "G" -> "g"
                   [] c = "R" -> "r" [] OTHER -> c ]

Lower(s) == [ i \in 1..Len(s) |-> LowerChar[s[i]] ]

\* Python's s < t on strs
RECURSIVE StrLess(_, _)
StrLess(s, t) ==
    IF t = << >> THEN FALSE
    ELSE IF s = << >> THEN TRUE
    ELSE IF s[1] # t[1] THEN Ord[s[1]] < Ord[t[1]]
    ELSE StrLess(Tail(s), Tail(t))

\* Python's a < b on lists of strs
RECURSIVE ListLess(_, _)
ListLess(a, b) ==
    IF b = << >> THEN FALSE
    ELSE IF a = << >> THEN TRUE
    ELSE IF a[1] # b[1] THEN StrLess(a[1], b[1])
    ELSE ListLess(Tail(a), Tail(b))

\* sorted(S) for a set S of strs
RECURSIVE SortedStrs(_)
SortedStrs(S) ==
    IF S = {} THEN << >>
    ELSE LET m == CHOOSE x \in S : \A y \in S \ {x} : StrLess(x, y)
         IN  <<m>> \o SortedStrs(S \ {m})

Range(q) == { q[i] : i \in 1..Len(q) }

\* index of the first occurrence of sep in s, 0 when there is none
Find(s, sep) ==
    LET at == { i \in 1..(Len(s) - Len(sep) + 1) :
                  SubSeq(s, i, i + Len(sep) - 1) = sep }
    IN  IF at = {} THEN 0 ELSE CHOOSE i \in at : \A j \in at : i <= j

\* sub in s
Contains(s, sub) == Find(s, sub) # 0

\* s.split(sep), sep non-empty
RECURSIVE Split(_, _)
Split(s, sep) ==
    LET i == Find(s, sep)
    IN  IF i = 0 THEN <<s>>
        ELSE <<SubSeq(s, 1, i - 1)>> \o Split(SubSeq(s, i + Len(sep), Len(s)), sep)

\* s.split(): the maximal runs of non-whitespace
RECURSIVE SplitWS(_)
SplitWS(s) ==
    IF s = << >> THEN << >>
    ELSE IF s[1] \in Whitespace THEN SplitWS(Tail(s))
    ELSE LET ends == { i \in 1..Len(s) : s[i] \in Whitespace }
             e    == IF ends = {} THEN Len(s) + 1
                     ELSE CHOOSE i \in ends : \A j \in ends : i <= j
         IN  <<SubSeq(s, 1, e - 1)>> \o SplitWS(SubSeq(s, e, Len(s)))

\* sep.join(parts)
RECURSIVE Join(_, _)
Join(sep, parts) ==
    IF parts = << >> THEN << >>
    ELSE IF Len(parts) = 1 THEN parts[1]
    ELSE parts[1] \o sep \o Join(sep, Tail(parts))

ButLast(q) == SubSeq(q, 1, Len(q) - 1)

\* s.isdigit()
IsDigit(s) == s # << >> /\ \A i \in 1..Len(s) : s[i] \in Digits

\* re.search('\d+$', s): the trailing digit run, << >> when there is no match
RECURSIVE TrailingDigits(_)
TrailingDigits(s) ==
    IF s = << >> \/ s[Len(s)] \notin Digits THEN << >>
    ELSE TrailingDigits(ButLast(s)) \o <<s[Len(s)]>>

\* re.search('^\d+', s): the leading digit run, << >> when there is no match
RECURSIVE LeadingDigits(_)
LeadingDigits(s) ==
    IF s = << >> \/ s[1] \notin Digits THEN << >>
    ELSE <<s[1]>> \o LeadingDigits(Tail(s))

\* s.replace(old, '')
Remove(s, old) == Join(<< >>, Split(s, old))

DigitChar == << "0", "1", "2", "3", "4", "5", "6", "7", "8", "9" >>

\* str(n), n >= 0
RECURSIVE Str(_)
Str(n) == IF n < 10 THEN <<DigitChar[n + 1]>>
          ELSE Str(n \div 10) \o <<DigitChar[(n % 10) + 1]>>

Hyphen == <<"-">>
Tif == <<".", "t", "i", "f">>
Dot == <<".">>

-----------------------------------------------------------------------------
(* cleanup_filenames.format_filenames *)

\* what a call that raises IndexError yields
IndexError == <<"IndexError">>

\* the trailing-number half of format_trailing_nums (lines 152-168)
SeparateTrailingNum(s) ==
    LET sp     == Join(Dot, ButLast(Split(s, Dot)))
        endnum == TrailingDigits(sp)
    IN  IF endnum = << >> THEN s
        ELSE LET cut == Join(endnum, ButLast(Split(sp, endnum)))
             IN  IF cut = << >> THEN IndexError       \* new[-1] of ''
                 ELSE LET new == IF cut[Len(cut)] = "-" THEN ButLast(cut) ELSE cut
                          ext == Dot \o Split(s, Dot)[Len(Split(s, Dot))]
                      IN  Join(Hyphen, <<new, endnum>>) \o ext

\* the prefix half of format_trailing_nums (lines 170-178)
SeparatePrefix(new) ==
    LET pfx == Split(new, Hyphen)[1]
        m   == LeadingDigits(pfx)
    IN  IF ~IsDigit(pfx) /\ m # << >>
        THEN Join(Hyphen, <<m, Remove(pfx, m), Join(Hyphen, Tail(Split(new, Hyphen)))>>)
        ELSE new

format_trailing_nums(s) ==
    LET new == SeparateTrailingNum(s)
    IN  IF new = IndexError THEN IndexError ELSE SeparatePrefix(new)

\* one element of format_filenames' result (lines 182, 185)
format_filename(f) == format_trailing_nums(Join(Hyphen, SplitWS(f)))

-----------------------------------------------------------------------------
(* cleanup_filenames: the rename and the brightfield filter *)

\* os.rename(old, new) on a POSIX directory: new is replaced if it exists
os_rename(d, old, new) ==
    [ n \in (DOMAIN d \ {old}) \cup {new} |-> IF n = new THEN d[old] ELSE d[n] ]

\* safe_rename without its os.path.exists test
clobbering_rename(d, old, new) == os_rename(d, old, new)

\* safe_rename: the directory after the call
safe_rename(d, old, new) ==
    IF new \in DOMAIN d THEN d ELSE os_rename(d, old, new)

\* the filter left out: every name is kept
keep_all(q) == q

\* [f for f in fmt_filenames if '-bf' not in f]
exclude_brightfield(q) ==
    SelectSeq(q, LAMBDA f : ~Contains(f, <<"-", "b", "f">>))

\* list.sort() on a list of strs
RECURSIVE SortStrs(_)
SortStrs(q) ==
    IF q = << >> THEN << >>
    ELSE LET x    == q[Len(q)]
             rest == SortStrs(ButLast(q))
             k    == Cardinality({ i \in 1..Len(rest) : ~StrLess(x, rest[i]) })
         IN  SubSeq(rest, 1, k) \o <<x>> \o SubSeq(rest, k + 1, Len(rest))

\* list.sort() on a list of lists of strs
RECURSIVE SortLists(_)
SortLists(q) ==
    IF q = << >> THEN << >>
    ELSE LET x    == q[Len(q)]
             rest == SortLists(ButLast(q))
             k    == Cardinality({ i \in 1..Len(rest) : ~ListLess(x, rest[i]) })
         IN  SubSeq(rest, 1, k) \o <<x>> \o SubSeq(rest, k + 1, Len(rest))

Reverse(q) == [ i \in 1..Len(q) |-> q[Len(q) + 1 - i] ]

\* some enumeration of a set as a list (the order glob happened to give)
RECURSIVE SetToSeq(_)
SetToSeq(S) ==
    IF S = {} THEN << >>
    ELSE LET x == CHOOSE y \in S : TRUE IN <<x>> \o SetToSeq(S \ {x})

-----------------------------------------------------------------------------
(* group_images *)

\* f.split('-')[0]
IdOf(f) == Split(f, Hyphen)[1]

\* values paired with the keys the way the code pairs them: the lists, sorted
group_lists(nums, fs) ==
    SortLists([ i \in 1..Len(nums) |-> SelectSeq(fs, LAMBDA f : nums[i] = IdOf(f)) ])

\* the dict as its keys and, position by position, its values
group_images(fs) ==
    LET nums == SortedStrs({ IdOf(fs[i]) : i \in 1..Len(fs) })
    IN  [ nums |-> nums, files |-> group_lists(nums, fs) ]

-----------------------------------------------------------------------------
(* tiffs_iterate_combos *)

ChannelKeys == <<"r", "g", "b">>

\* f.split('-')[1].lower()[0], or IndexError
ChannelLetter(f) ==
    LET seg == Split(f, Hyphen)
    IN  IF Len(seg) < 2 THEN "IndexError"
        ELSE IF seg[2] = << >> THEN "IndexError"
        ELSE Lower(seg[2])[1]

\* the colors dict after the classification loop
classify(fs) ==
    [ ch \in {"r", "g", "b"} |-> SelectSeq(fs, LAMBDA f : ChannelLetter(f) = ch) ]

\* the names the loop appends to bad_files
unclassifiable(fs) == SelectSeq(fs, LAMBDA f : ChannelLetter(f) = "IndexError")

is_two_channels(colors) ==
    Cardinality({ ch \in {"r", "g", "b"} : Len(colors[ch]) > 0 }) = 2

dummy_name(im_id, ch) == im_id \o Hyphen \o <<ch>> \o <<".", "d", "u", "m", "m", "y">>

\* the empty channel of a two-channel colors dict
EmptyChannel(colors) == CHOOSE ch \in {"r", "g", "b"} : Len(colors[ch]) = 0

\* the first populated list's first name
first_model_tif(colors) ==
    LET i == CHOOSE j \in 1..3 : /\ Len(colors[ChannelKeys[j]]) > 0
                                 /\ \A k \in 1..(j - 1) : Len(colors[ChannelKeys[k]]) = 0
    IN  colors[ChannelKeys[i]][1]

\* the file generate_dummy_tif reads: model_tif is overwritten by every
\* populated list in r, g, b order, so the last populated list's first name
model_tif(colors) ==
    LET i == CHOOSE j \in 1..3 : /\ Len(colors[ChannelKeys[j]]) > 0
                                 /\ \A k \in (j + 1)..3 : Len(colors[ChannelKeys[k]]) = 0
    IN  colors[ChannelKeys[i]][1]

\* the colors dict allow_two_channels returns
allow_two_channels(im_id, colors) ==
    IF is_two_channels(colors)
    THEN [ colors EXCEPT ![EmptyChannel(colors)] =
                           <<dummy_name(im_id, EmptyChannel(colors))>> ]
    ELSE colors

\* np.zeros_like(model)
zeros_like(model) ==
    [ src |-> "zeros_like", shape |-> model.shape, dtype |-> model.dtype, zero |-> TRUE ]

RECURSIVE Concat(_)
Concat(qq) == IF qq = << >> THEN << >> ELSE qq[1] \o Concat(Tail(qq))

\* zip(R, G, B)
zip3(R, G, B) ==
    LET n == CHOOSE m \in 0..Len(R) :
                 /\ m <= Len(G) /\ m <= Len(B)
                 /\ (m = Len(R) \/ m = Len(G) \/ m = Len(B))
    IN  [ i \in 1..n |-> <<R[i], G[i], B[i]>> ]

\* itertools.product(R, G, B)
product(R, G, B) ==
    Concat([ i \in 1..Len(R) |->
               Concat([ j \in 1..Len(G) |->
                          [ k \in 1..Len(B) |-> <<R[i], G[j], B[k]>> ] ]) ])

\* [sorted(t, reverse=True) for t in product(*colors.values())]
combinations(colors) ==
    LET p == product(colors["r"], colors["g"], colors["b"])
    IN  [ i \in 1..Len(p) |-> Reverse(SortStrs(p[i])) ]

-----------------------------------------------------------------------------
(* preproc_imgs.get_uids and outfile_names *)

\* d[k] = v on a dict kept as a list of <<key, value>> in insertion order
DictPut(d, k, v) ==
    IF \E i \in 1..Len(d) : d[i][1] = k
    THEN [ i \in 1..Len(d) |-> IF d[i][1] = k THEN <<k, v>> ELSE d[i] ]
    ELSE Append(d, <<k, v>>)

RECURSIVE DictPutAll(_, _)
DictPutAll(d, kvs) ==
    IF kvs = << >> THEN d ELSE DictPutAll(DictPut(d, kvs[1][1], kvs[1][2]), Tail(kvs))

\* the assignments get_uids makes for one acquisition, in order
uid_entries(k, imls) ==
    [ p \in 1..Len(imls) |->
        <<IF p = 1 THEN k ELSE Join(Hyphen, <<k, Str(p)>>), imls[p]>> ]

RECURSIVE get_uids_from(_, _, _)
get_uids_from(d, ids, combos) ==
    IF ids = << >> THEN d
    ELSE get_uids_from(DictPutAll(d, uid_entries(ids[1], combos[1])),
                       Tail(ids), Tail(combos))

get_uids(ids, combos) == get_uids_from(<< >>, ids, combos)

Rgb == <<"r", "g", "b">>

\* outfile_names without the '01-2' case
plain_outfile_name(im_id) == Join(Hyphen, <<im_id, Rgb>>) \o Tif

\* outfile_names: the name for one key
outfile_name(im_id) ==
    LET ks == Split(im_id, Hyphen)
    IN  IF Len(ks) = 2 THEN Join(Hyphen, <<ks[1], Rgb, ks[Len(ks)]>>) \o Tif
        ELSE Join(Hyphen, <<im_id, Rgb>>) \o Tif

-----------------------------------------------------------------------------
(* The run: main *)

MaxFiles == 4

\* the names a directory may hold
Pool ==
    { <<"0", "1", "-", "r", "e", "d", ".", "t", "i", "f">>,                  \* 01-red.tif
      <<"0", "1", " ", "g", "r", "e", "e", "n", ".", "t", "i", "f">>,        \* 01 green.tif
      <<"0", "1", "-", "b", "l", "u", "e", "2", ".", "t", "i", "f">>,        \* 01-blue2.tif
      <<"0", "1", "-", "b", "l", "u", "e", "-", "2", ".", "t", "i", "f">>,   \* 01-blue-2.tif
      <<"0", "1", "-", "R", "e", "d", ".", "t", "i", "f">>,                  \* 01-Red.tif
      <<"0", "1", "-", "b", "f", ".", "t", "i", "f">>,                       \* 01-bf.tif
      <<"0", "1", "-", "g", "b", "f", ".", "t", "i", "f">>,                  \* 01-gbf.tif
      <<"c", "t", "r", "l", ".", "t", "i", "f">>,                            \* ctrl.tif
      <<"x", "-", "r", "e", "d", ".", "t", "i", "f">>,                       \* x-red.tif
      <<"x", "(", "2", ")", "-", "r", "e", "d", ".", "t", "i", "f">>,        \* x(2)-red.tif
      <<"1", "0", "1", "-", "r", "e", "d", ".", "t", "i", "f">>,             \* 101-red.tif
      <<"0", "1", ".", "t", "i", "f">> }                                     \* 01.tif

\* the image a file holds: src is the raw name it was found under
Plain(n)      == [ src |-> n, shape |-> "512x512", dtype |-> "uint16", zero |-> FALSE ]
OtherShape(n) == [ src |-> n, shape |-> "256x256", dtype |-> "uint16", zero |-> FALSE ]
OtherDtype(n) == [ src |-> n, shape |-> "512x512", dtype |-> "uint8", zero |-> FALSE ]

\* directories over the names S: all images alike, or one of them different
Directories(S) ==
    { [ n \in S |-> Plain(n) ] }
    \cup { [ n \in S |-> IF n = a THEN OtherShape(n) ELSE Plain(n) ] : a \in S }
    \cup { [ n \in S |-> IF n = a THEN OtherDtype(n) ELSE Plain(n) ] : a \in S }

EndsWith(s, suf) ==
    Len(s) >= Len(suf) /\ SubSeq(s, Len(s) - Len(suf) + 1, Len(s)) = suf

DummyExt == <<".", "d", "u", "m", "m", "y">>

\* glob('*.dummy') matches n
IsDummyFile(n) == EndsWith(n, DummyExt) /\ n[1] # "."

NormIdle ==
    /\ nraw = << >>
    /\ nonce = << >>
    /\ ntwice = << >>
    /\ npc = 0

Init ==
    /\ names \in { S \in SUBSET Pool : Cardinality(S) <= MaxFiles }
    /\ disk \in Directories(names)
    /\ pc = "format"
    /\ fmt = << >>
    /\ todo = {}
    /\ filenames = << >>
    /\ channels = [ nums |-> << >>, files |-> << >> ]
    /\ acq = 1
    /\ classified = << >>
    /\ lists = << >>
    /\ imgs = << >>
    /\ bad_files = << >>
    /\ uids = << >>
    /\ nuid = 1
    /\ rgb = << >>
    /\ written = << >>
    /\ io = << >>
    /\ NormIdle

\* format_filenames (line 189): an IndexError in it ends the run with a traceback
Format ==
    /\ pc = "format"
    /\ fmt' = [ f \in names |-> format_filename(f) ]
    /\ IF \E f \in names : format_filename(f) = IndexError
       THEN pc' = "crashed" /\ todo' = todo
       ELSE pc' = "rename" /\ todo' = names
    /\ UNCHANGED <<disk, names, filenames, channels, acq, classified, lists, imgs,
                   bad_files, uids, nuid, rgb, written, io, normvars>>

\* one turn of the loop of lines 190-191; glob's order is the directory's own
Rename(old) ==
    /\ pc = "rename"
    /\ old \in todo
    /\ disk' = safe_rename(disk, old, fmt[old])
    /\ todo' = todo \ {old}
    /\ UNCHANGED <<pc, names, fmt, filenames, channels, acq, classified, lists, imgs,
                   bad_files, uids, nuid, rgb, written, io, normvars>>

\* lines 194-197: the filter, the sort, the return
CleanupFilenamesReturn ==
    /\ pc = "rename"
    /\ todo = {}
    /\ filenames' = SortStrs(exclude_brightfield(
                        LET g == SetToSeq(names) IN [ i \in 1..Len(g) |-> fmt[g[i]] ]))
    /\ pc' = "group"
    /\ UNCHANGED <<disk, names, fmt, todo, channels, acq, classified, lists, imgs,
                   bad_files, uids, nuid, rgb, written, io, normvars>>

GroupImages ==
    /\ pc = "group"
    /\ channels' = group_images(filenames)
    /\ acq' = 1
    /\ pc' = "combos"
    /\ UNCHANGED <<disk, names, fmt, todo, filenames, classified, lists, imgs,
                   bad_files, uids, nuid, rgb, written, io, normvars>>

\* one turn of the loop of lines 288-318, tiffread succeeding
IterateCombos ==
    /\ pc = "combos"
    /\ acq <= Len(channels.nums)
    /\ LET im_id  == channels.nums[acq]
           fs     == channels.files[acq]
           colors == classify(fs)
           filled == allow_two_channels(im_id, colors)
           dummy  == dummy_name(im_id, EmptyChannel(colors))
       IN  /\ bad_files' = bad_files \o unclassifiable(fs)
           /\ IF is_two_channels(colors)
              THEN /\ io' = io \o << <<"read", model_tif(colors)>>, <<"write", dummy>> >>
                   /\ disk' = [ n \in DOMAIN disk \cup {dummy} |->
                                  IF n = dummy THEN zeros_like(disk[model_tif(colors)])
                                  ELSE disk[n] ]
              ELSE UNCHANGED <<io, disk>>
           /\ classified' = Append(classified, colors)
           /\ lists' = Append(lists, filled)
           /\ imgs' = Append(imgs, combinations(filled))
    /\ acq' = acq + 1
    /\ UNCHANGED <<pc, names, fmt, todo, filenames, channels, uids, nuid, rgb,
                   written, normvars>>

\* the same turn, tiffread of the model raising ValueError: sys.exit (line 455)
DummyReadError ==
    /\ pc = "combos"
    /\ acq <= Len(channels.nums)
    /\ LET colors == classify(channels.files[acq])
       IN  /\ is_two_channels(colors)
           /\ bad_files' = bad_files \o unclassifiable(channels.files[acq])
           /\ io' = Append(io, <<"read", model_tif(colors)>>)
    /\ pc' = "exit_read"
    /\ UNCHANGED <<disk, names, fmt, todo, filenames, channels, acq, classified, lists,
                   imgs, uids, nuid, rgb, written, normvars>>

\* lines 324-334: the batched exit
ExitBadFiles ==
    /\ pc = "combos"
    /\ acq > Len(channels.nums)
    /\ Len(bad_files) > 0
    /\ pc' = "exit_bad"
    /\ UNCHANGED <<disk, names, fmt, todo, filenames, channels, acq, classified, lists,
                   imgs, bad_files, uids, nuid, rgb, written, io, normvars>>

\* line 338 and line 387: tiffs_iterate_combos returns, preproc_imgs takes the uids
GetUids ==
    /\ pc = "combos"
    /\ acq > Len(channels.nums)
    /\ Len(bad_files) = 0
    /\ uids' = get_uids(channels.nums, imgs)
    /\ nuid' = 1
    /\ pc' = "preproc"
    /\ UNCHANGED <<disk, names, fmt, todo, filenames, channels, acq, classified, lists,
                   imgs, bad_files, rgb, written, io, normvars>>

\* one turn of the loop of lines 391-406: np.dstack raises ValueError, and
\* the uid is skipped, when the shapes differ
PreprocUid ==
    /\ pc = "preproc"
    /\ nuid <= Len(uids)
    /\ LET imls == uids[nuid][2]
       IN  /\ io' = io \o [ i \in 1..Len(imls) |-> <<"read", imls[i]>> ]
           /\ rgb' = IF \A i, j \in 1..Len(imls) : disk[imls[i]].shape = disk[imls[j]].shape
                     THEN Append(rgb, uids[nuid][1])
                     ELSE rgb
    /\ nuid' = nuid + 1
    /\ UNCHANGED <<disk, pc, names, fmt, todo, filenames, channels, acq, classified,
                   lists, imgs, bad_files, uids, written, normvars>>

\* the same turn, the tiffread of its k-th file raising ValueError
PreprocReadError(k) ==
    /\ pc = "preproc"
    /\ nuid <= Len(uids)
    /\ k <= Len(uids[nuid][2])
    /\ io' = io \o [ i \in 1..k |-> <<"read", uids[nuid][2][i]>> ]
    /\ pc' = "exit_read"
    /\ UNCHANGED <<disk, names, fmt, todo, filenames, channels, acq, classified, lists,
                   imgs, bad_files, uids, nuid, rgb, written, normvars>>

\* the dict outfile_names returns, as its keys in order
outfile_names(keys) ==
    LET d == DictPutAll(<< >>, [ i \in 1..Len(keys) |-> <<outfile_name(keys[i]), keys[i]>> ])
    IN  [ i \in 1..Len(d) |-> d[i][1] ]

\* lines 44-53
WriteAll ==
    /\ pc = "preproc"
    /\ nuid > Len(uids)
    /\ written' = outfile_names(rgb)
    /\ io' = io \o [ i \in 1..Len(outfile_names(rgb)) |-> <<"write", outfile_names(rgb)[i]>> ]
    /\ pc' = "cleanup"
    /\ UNCHANGED <<disk, names, fmt, todo, filenames, channels, acq, classified, lists,
                   imgs, bad_files, uids, nuid, rgb, normvars>>

\* cleanup (lines 468-475), then the run ends with status 0
Cleanup ==
    /\ pc = "cleanup"
    /\ disk' = [ n \in { m \in DOMAIN disk : ~IsDummyFile(m) } |-> disk[n] ]
    /\ pc' = "done"
    /\ UNCHANGED <<names, fmt, todo, filenames, channels, acq, classified, lists, imgs,
                   bad_files, uids, nuid, rgb, written, io, normvars>>

Next ==
    \/ Format
    \/ \E old \in names : Rename(old)
    \/ CleanupFilenamesReturn
    \/ GroupImages
    \/ IterateCombos
    \/ DummyReadError
    \/ ExitBadFiles
    \/ GetUids
    \/ PreprocUid
    \/ \E k \in 1..3 : PreprocReadError(k)
    \/ WriteAll
    \/ Cleanup

Spec == Init /\ [][Next]_vars

-----------------------------------------------------------------------------
(* The normaliser on its own: every name over a small alphabet, formatted  *)
(* once and then again.                                                     *)

MaxStem == 4

StemChars == { "0", "1", "a", "-", ".", " " }

Stems == UNION { [1..n -> StemChars] : n \in 0..MaxStem }

NormInit ==
    /\ nraw \in { s \o Tif : s \in Stems }
    /\ nonce = << >>
    /\ ntwice = << >>
    /\ npc = 0
    /\ pc = "idle" /\ disk = << >> /\ names = {} /\ fmt = << >> /\ todo = {}
    /\ filenames = << >> /\ channels = << >> /\ acq = 0 /\ classified = << >>
    /\ lists = << >> /\ imgs = << >> /\ bad_files = << >> /\ uids = << >>
    /\ nuid = 0 /\ rgb = << >> /\ written = << >> /\ io = << >>

FormatOnce ==
    /\ npc = 0
    /\ nonce' = format_filename(nraw)
    /\ npc' = 1
    /\ UNCHANGED <<nraw, ntwice, runvars>>

FormatAgain ==
    /\ npc = 1
    /\ nonce # IndexError
    /\ ntwice' = format_filename(nonce)
    /\ npc' = 2
    /\ UNCHANGED <<nraw, nonce, runvars>>

NormNext ==
    \/ FormatOnce
    \/ FormatAgain

NormSpec == NormInit /\ [][NormNext]_vars

-----------------------------------------------------------------------------
(* Properties *)

Count(q, x) == Cardinality({ i \in 1..Len(q) : q[i] = x })

SameBag(q, t) ==
    /\ Len(q) = Len(t)
    /\ \A x \in Range(q) \cup Range(t) : Count(q, x) = Count(t, x)

Populated(colors) == { ch \in {"r", "g", "b"} : Len(colors[ch]) > 0 }

Exited == pc \in {"done", "exit_bad", "exit_read", "crashed"}

\* C1: a run that found an unclassifiable file goes no further than the
\* batched exit, and when it exits there no image has been read or written,
\* the placeholder's template read and the placeholder's write included.
C1_BadFileExitBeforeImageIO ==
    /\ Len(bad_files) > 0 => pc \in {"combos", "exit_bad", "exit_read"}
    /\ pc = "exit_bad" => io = << >>

\* C2: when the run has ended, on whichever path, no file matching the dummy
\* marker is left in the directory.
C2_NoDummyLeftAtExit ==
    Exited => \A n \in DOMAIN disk : ~IsDummyFile(n)

\* C3: while and after cleanup_filenames renames, the directory holds as many
\* files as it did, every original file's content is still there (nothing was
\* overwritten), and each file is under its raw name or under its formatted
\* name; a file still under its raw name after its turn was skipped because
\* another file held the formatted name.
C3_RenameNeverClobbers ==
    pc \in {"rename", "group"} =>
        /\ Cardinality(DOMAIN disk) = Cardinality(names)
        /\ { disk[n].src : n \in DOMAIN disk } = names
        /\ \A n \in DOMAIN disk : n \in {disk[n].src, fmt[disk[n].src]}
        /\ \A o \in names \ todo :
               (o \in DOMAIN disk /\ disk[o].src = o /\ fmt[o] # o)
                   => (fmt[o] \in DOMAIN disk /\ disk[fmt[o]].src # o)

\* C3 witness: the loop is over, one rename was skipped on an existing target
\* and another was performed.
C3_SkippedAndRenamed ==
    /\ pc = "group"
    /\ \E o \in names : fmt[o] # o /\ o \in DOMAIN disk /\ fmt[o] \in DOMAIN disk
    /\ \E o \in names : fmt[o] # o /\ o \notin DOMAIN disk /\ disk[fmt[o]].src = o

\* C4: in group_images' result every file is in exactly one group, every file
\* under key k has the id k (the text before its first hyphen), and the keys
\* ascend.
C4_GroupsMatchTheirKeys ==
    pc \in {"combos", "exit_bad", "exit_read", "preproc", "cleanup", "done"} =>
        /\ \A k \in 1..Len(channels.nums) :
               \A i \in 1..Len(channels.files[k]) :
                   IdOf(channels.files[k][i]) = channels.nums[k]
        /\ SameBag(Concat(channels.files), filenames)
        /\ \A k \in 1..(Len(channels.nums) - 1) :
               StrLess(channels.nums[k], channels.nums[k + 1])

\* C5: every combination is (red file, green file, blue file).
C5_CombinationsAreRGB ==
    \A a \in 1..Len(imgs) : \A c \in 1..Len(imgs[a]) :
        /\ ChannelLetter(imgs[a][c][1]) = "r"
        /\ ChannelLetter(imgs[a][c][2]) = "g"
        /\ ChannelLetter(imgs[a][c][3]) = "b"

\* C6: an acquisition's combinations are the Cartesian product of its three
\* lists after placeholder filling: |R|*|G|*|B| of them, the one at place
\* (i, j, k) made of exactly R[i], G[j] and B[k]; none when fewer than two
\* lists were populated.
C6_CombinationsAreTheProduct ==
    \A a \in 1..Len(imgs) :
        LET R == lists[a]["r"]
            G == lists[a]["g"]
            B == lists[a]["b"]
        IN  /\ Len(imgs[a]) = Len(R) * Len(G) * Len(B)
            /\ \A i \in 1..Len(R) : \A j \in 1..Len(G) : \A k \in 1..Len(B) :
                   SameBag(imgs[a][((i - 1) * Len(G) + (j - 1)) * Len(B) + k],
                           <<R[i], G[j], B[k]>>)
            /\ Cardinality(Populated(classified[a])) <= 1 => imgs[a] = << >>

\* C6 witness: two red files, one green, one blue, all real: two combinations.
C6_TwoRedsTwoCombinations ==
    \E a \in 1..Len(imgs) :
        /\ Len(classified[a]["r"]) = 2
        /\ Len(classified[a]["g"]) = 1
        /\ Len(classified[a]["b"]) = 1
        /\ classified[a]["r"][1] # classified[a]["r"][2]
        /\ Len(imgs[a]) = 2

\* the template the amended C7 names: the first file of the last populated list
LastPopulatedFirst(colors) ==
    IF Len(colors["b"]) > 0 THEN colors["b"][1]
    ELSE IF Len(colors["g"]) > 0 THEN colors["g"][1]
    ELSE colors["r"][1]

Merged ==
    UNION { Range(lists[a][ch]) : a \in 1..Len(lists), ch \in {"r", "g", "b"} }
    \cup UNION { UNION { Range(imgs[a][c]) : c \in 1..Len(imgs[a]) } : a \in 1..Len(imgs) }

\* the channel token of a name: the text between its first and second hyphen
HasToken(f) == Len(Split(f, Hyphen)) >= 2
Token(f) == Split(f, Hyphen)[2]

\* C8, as amended: no file whose formatted name contains "-bf" is in any
\* channel list or combination, nor in what cleanup_filenames and
\* group_images return.
C8_NoDashBfNameIsMerged ==
    \A f \in Merged \cup Range(filenames) \cup Range(Concat(channels.files)) :
        ~Contains(f, <<"-", "b", "f">>)

\* C8 witness: the directory held a "-bf" file and a channel list was filled.
C8_BrightfieldWasThere ==
    /\ pc = "done"
    /\ \E n \in names : Contains(fmt[n], <<"-", "b", "f">>)
    /\ Merged # {}

\* C8 as stated: no file whose channel token contains "bf" is in any channel
\* list or combination.
C8_NoBfTokenIsMerged ==
    \A f \in Merged : HasToken(f) => ~Contains(Token(f), <<"b", "f">>)

\* the combinations in generation order, each with its acquisition and its place
Generated ==
    Concat([ a \in 1..Len(imgs) |->
               [ n \in 1..Len(imgs[a]) |->
                   [ id |-> channels.nums[a], n |-> n, combo |-> imgs[a][n] ] ] ])

\* C9: the n-th combination of acquisition <id> is keyed <id> (n = 1) or
\* <id>-<n>, and named <id>-rgb.tif or <id>-rgb-<n>.tif; no two combinations
\* share a name; the files written are the names of the composited keys.
C9_UidsAndOutfileNames ==
    pc \in {"preproc", "cleanup", "done"} =>
        /\ Len(uids) = Len(Generated)
        /\ \A p \in 1..Len(uids) :
             LET e == Generated[p]
             IN  /\ uids[p][2] = e.combo
                 /\ uids[p][1] = IF e.n = 1 THEN e.id ELSE e.id \o Hyphen \o Str(e.n)
                 /\ outfile_name(uids[p][1]) =
                        IF e.n = 1 THEN e.id \o Hyphen \o Rgb \o Tif
                        ELSE e.id \o Hyphen \o Rgb \o Hyphen \o Str(e.n) \o Tif
        /\ \A p, q \in 1..Len(uids) :
             p # q => outfile_name(uids[p][1]) # outfile_name(uids[q][1])
        /\ pc \in {"cleanup", "done"} =>
             written = [ i \in 1..Len(rgb) |-> outfile_name(rgb[i]) ]

\* C9 witness: the run is over and 01-rgb.tif and 01-rgb-2.tif were written.
C9_SecondCombinationWritten ==
    /\ pc = "done"
    /\ \E i \in 1..Len(written) :
           written[i] = <<"0", "1", "-", "r", "g", "b", ".", "t", "i", "f">>
    /\ \E i \in 1..Len(written) :
           written[i] = <<"0", "1", "-", "r", "g", "b", "-", "2", ".", "t", "i", "f">>

\* a name <digits>-<token><digits>.tif, the token free of digits, hyphens,
\* dots and whitespace: parts <<id, token, digit run>>, << >> for other names
GluedParts(f) ==
    LET stem == SubSeq(f, 1, Len(f) - Len(Tif))
        segs == Split(stem, Hyphen)
        run  == IF Len(segs) = 2 THEN TrailingDigits(segs[2]) ELSE << >>
        tok  == IF Len(segs) = 2 THEN SubSeq(segs[2], 1, Len(segs[2]) - Len(run)) ELSE << >>
    IN  IF /\ Len(segs) = 2
           /\ IsDigit(segs[1])
           /\ run # << >>
           /\ tok # << >>
           /\ \A i \in 1..Len(tok) : tok[i] \notin Digits \cup Whitespace \cup {"."}
        THEN <<segs[1], tok, run>>
        ELSE << >>

\* C10: formatting any name yields a name, formatting that again yields it
\* unchanged, and <id>-<token><digits>.tif becomes <id>-<token>-<digits>.tif.
C10_FormatIsIdempotent ==
    /\ npc >= 1 => nonce # IndexError
    /\ (npc >= 1 /\ GluedParts(nraw) # << >>) =>
           nonce = Join(Hyphen, GluedParts(nraw)) \o Tif
    /\ npc = 2 => ntwice = nonce

====
